---- MODULE Spec2Model ----
(***************************************************************************)
(* Model of the two collectors of the repository.                          *)
(*                                                                         *)
(*   Spanish_Data_Collecter.py  the API collector: LaLigaAPI.make_request, *)
(*                              get_season_data, process_data, save_data,  *)
(*                              main                                       *)
(*   Webscraper.py              the browser scraper: get_teams,            *)
(*                              get_seasons, get_match_logs, scrape_data   *)
(*                                                                         *)
(* Four specifications share the variables:                                *)
(*   Spec        main()'s season walk of the API collector                 *)
(*   RateSpec    a sequence of LaLigaAPI.make_request calls against a      *)
(*               clock (the rate limiter)                                  *)
(*   FnSpec      process_data and save_data applied to drawn inputs        *)
(*   ScrapeSpec  scrape_data()'s walk over teams and seasons               *)
(* The remote API, the pages and the clock are the environment: every      *)
(* response, page and delay is drawn from a small set.                     *)
(***************************************************************************)
EXTENDS Integers, Sequences, FiniteSets, TLC

VARIABLES
    pc,                 \* position of the flow of control
    error,              \* the uncaught exception that ended the run, or "none"
    season_year,        \* main: the loop variable
    matchday,           \* get_season_data: the loop variable
    matches,            \* get_season_data: the accumulated match list
    standings,          \* get_season_data: the standings payload (or None)
    scorers,            \* get_season_data: the scorers payload (or None)
    matches_df,         \* process_data's tables, as sequences of rows
    standings_df,
    scorers_df,
    files,              \* the files written so far: <<kind, season_year>>
    requests,           \* the GETs issued for the current season, in order
    only403,            \* every response of the run so far was a 403
    paid,               \* standings fetches answered 403 ("[X] Paid data"), by season
    now,                \* the clock (time.time()), in ticks of 0.5 s
    last_request_time,  \* LaLigaAPI.last_request_time, in ticks
    issued_at,          \* when the latest GET was issued
    granted_at,         \* last_request_time as the latest call found it
    ncalls,             \* make_request calls made
    slept,              \* ticks the latest call slept at line 25
    teams,              \* scrape_data: the list get_teams returned
    team_idx,           \* scrape_data: index of the team being processed
    seasons,            \* scrape_data: the list get_seasons returned
    season_idx,         \* scrape_data: index of the season being processed
    all_data,           \* scrape_data: the accumulated logs: team, season, url
    doc,                \* the page the latest driver.get asked for
    loads,              \* driver.get calls issued so far
    since_load,         \* seconds elapsed since the latest driver.get
    last_gap,           \* seconds between the two latest driver.get, -1 if none
    gap_raised,         \* whether the earlier of those two raised
    last_raised         \* whether the latest driver.get raised

vars == <<pc, error, season_year, matchday, matches, standings, scorers,
          matches_df, standings_df, scorers_df, files, requests, only403,
          paid, now, last_request_time, issued_at, granted_at, ncalls,
          slept, teams, team_idx, seasons, season_idx, all_data, doc, loads,
          since_load, last_gap, gap_raised, last_raised>>

rateVars == <<now, last_request_time, issued_at, granted_at, ncalls, slept>>
scrapeVars == <<teams, team_idx, seasons, season_idx, all_data, doc, loads,
                since_load, last_gap, gap_raised, last_raised>>

-----------------------------------------------------------------------------
(* Bounds of the model *)

\* seasons the walk covers: datetime.now().year - 2020 + 1
NumSeasons == 3
\* match records the API returns for one season
MaxMatches == 2
\* rows of a table drawn as an input of process_data / save_data
MaxRows == 2
\* the clock's last tick
MaxTime == 42
\* ticks between two make_request calls: up to MaxIdle, or within MaxIdle
\* of REQUEST_INTERVAL
MaxIdle == 1
\* ticks a sleep overshoots
MaxOver == 1
\* ticks an HTTP exchange takes
MaxDur == 1
\* make_request calls of one run of RateSpec
MaxCalls == 3
\* rows of the league page's stats table
MaxTeamRows == 2
\* seconds a driver.get takes to raise
MaxFailTime == 1

(* Program constants *)

\* range(2020, current_year + 1)
FirstSeason == 2020
\* range(1, 39)
LastMatchday == 38
\* REQUEST_INTERVAL = 6.5 s, in ticks of 0.5 s
REQUEST_INTERVAL == 13
\* Webscraper.py: REQUEST_DELAY = 8 s
REQUEST_DELAY == 8

current_year == FirstSeason + NumSeasons - 1

-----------------------------------------------------------------------------
(* Values *)

\* A JSON payload as the collector reads it: None, or a dict with its keys
\* and, under its list key ("matches", "standings", "scorers"), its items.
None == [isNone |-> TRUE, keys |-> {}, items |-> << >>]
Json(keys, items) == [isNone |-> FALSE, keys |-> keys, items |-> items]

\* Python truthiness of a payload: None and {} are falsy.
Truthy(d) == ~d.isNone /\ d.keys # {}

\* The outcome of a call: a returned value or a raised exception.
Return(v) == [exc |-> "none", value |-> v]
Raise(e) == [exc |-> e, value |-> None]

\* A score is absent (<< >>, JSON null) or an integer (<<n>>).
Scores == {<< >>, <<1>>, <<2>>}
\* A match of the API: its full-time scores and status; the columns id,
\* utcDate, matchday and the team ids and names are carried through
\* process_data unchanged and are left out.
Match(h, a) ==
    [home |-> h, away |-> a,
     status |-> IF h = << >> \/ a = << >> THEN "SCHEDULED" ELSE "FINISHED"]
AllMatches == {Match(h, a) : h \in Scores, a \in Scores}
\* The matches the walk's pages carry: one played, one not yet played.
WalkMatches == {Match(<<2>>, <<1>>), Match(<< >>, << >>)}

SeqsUpTo(S, n) == UNION {[1..k -> S] : k \in 0..n}

IsPrefix(s, t) == Len(s) <= Len(t) /\ \A i \in 1..Len(s) : s[i] = t[i]

\* No page loaded yet.
NoPage == [kind |-> "none"]

\* An HTTP exchange: the transport fails (requests.get raises), or answers
\* with a status code and a body that parses as JSON or does not.
Response(transport, code, parsable, json) ==
    [transport |-> transport, status_code |-> code, parsable |-> parsable,
     json |-> json]
Failures ==
    {Response("error", 0, FALSE, None),
     Response("ok", 429, TRUE, Json({"message"}, << >>)),
     Response("ok", 500, FALSE, None),
     Response("ok", 200, FALSE, None)}
Forbidden == Response("ok", 403, TRUE, Json({"message"}, << >>))
Ok(json) == Response("ok", 200, TRUE, json)

\* The pages of the matches endpoint for one matchday.
MatchPages(room) ==
    {Ok(Json({}, << >>)), Ok(Json({"message"}, << >>)),
     Ok(Json({"matches"}, << >>))}
    \cup {Ok(Json({"matches"}, <<m>>)) : m \in IF room >= 1 THEN WalkMatches ELSE {}}
    \cup {Ok(Json({"matches"}, <<m, m>>)) : m \in IF room >= 2 THEN WalkMatches ELSE {}}

\* A standings table: its type and its rows (the teams).
Table(type, rows) == [type |-> type, table |-> rows]
StandingsPayloads ==
    {Json({"message"}, << >>),
     Json({"standings"}, <<Table("TOTAL", <<"t1", "t2">>), Table("HOME", <<"t1">>)>>),
     Json({"standings"}, <<Table("HOME", <<"t1">>)>>),
     Json({"standings"}, <<Table("TOTAL", << >>)>>)}
ScorersPayloads ==
    {Json({"message"}, << >>),
     Json({"scorers"}, << >>),
     Json({"scorers"}, <<"p1", "p2">>)}

-----------------------------------------------------------------------------
(* Spanish_Data_Collecter.py *)

\* LaLigaAPI.make_request, lines 27-35: what the call returns or raises.
make_request(resp) ==
    IF resp.transport = "error" THEN Raise("ConnectionError")
    ELSE IF resp.status_code = 403 THEN Return(None)
    ELSE IF resp.status_code >= 400 THEN Raise("HTTPError")
    ELSE IF ~resp.parsable THEN Raise("JSONDecodeError")
    ELSE Return(resp.json)

\* extend_matches with the page assigned instead of appended.
extend_matches_overwrite(acc, data) ==
    IF Truthy(data) /\ "matches" \in data.keys THEN data.items ELSE acc

\* get_season_data, lines 50-51: the loop body after the fetch.
extend_matches(acc, data) ==
    IF Truthy(data) /\ "matches" \in data.keys THEN acc \o data.items ELSE acc

\* process_data, lines 70-86: pd.json_normalize([]) has no columns, so the
\* column selection raises KeyError on an empty match list.
process_matches(ms, year) ==
    IF ms = << >> THEN Raise("KeyError")
    ELSE Return([i \in 1..Len(ms) |->
                    [home_score |-> ms[i].home, away_score |-> ms[i].away,
                     status |-> ms[i].status, season |-> year]])

RECURSIVE total_rows(_, _)
total_rows(tables, year) ==
    IF tables = << >> THEN << >>
    ELSE LET t == Head(tables)
             rows == IF t.type = "TOTAL"
                     THEN [i \in 1..Len(t.table) |->
                              [team |-> t.table[i], season |-> year]]
                     ELSE << >>
         IN rows \o total_rows(Tail(tables), year)

\* process_data, lines 89-95.
process_standings(st, year) ==
    IF Truthy(st) /\ "standings" \in st.keys
    THEN total_rows(st.items, year)
    ELSE << >>

\* process_data, lines 98-103: the column selection raises KeyError on an
\* empty scorers list.
process_scorers(sc, year) ==
    IF Truthy(sc) /\ "scorers" \in sc.keys
    THEN IF sc.items = << >> THEN Raise("KeyError")
         ELSE Return([i \in 1..Len(sc.items) |->
                         [player |-> sc.items[i], season |-> year]])
    ELSE Return(<< >>)

\* process_data as a whole: the three tables, or the exception raised.
process_data(ms, st, sc, year) ==
    LET m == process_matches(ms, year)
        c == process_scorers(sc, year)
    IN  IF m.exc # "none" THEN [exc |-> m.exc, m |-> << >>, s |-> << >>, c |-> << >>]
        ELSE IF c.exc # "none" THEN [exc |-> c.exc, m |-> << >>, s |-> << >>, c |-> << >>]
        ELSE [exc |-> "none", m |-> m.value, s |-> process_standings(st, year),
              c |-> c.value]

\* save_data without the emptiness test of line 116.
save_data_unguarded(mdf, sdf, cdf, year) ==
    {<<"matches", year>>, <<"standings", year>>}
    \cup (IF cdf # << >> THEN {<<"scorers", year>>} ELSE {})

\* save_data, lines 111-126: the files written.
save_data(mdf, sdf, cdf, year) ==
    {<<"matches", year>>}
    \cup (IF sdf # << >> THEN {<<"standings", year>>} ELSE {})
    \cup (IF cdf # << >> THEN {<<"scorers", year>>} ELSE {})

-----------------------------------------------------------------------------
(* Spec: main(), lines 130-147, driving get_season_data, lines 39-65 *)

NoRate ==
    /\ now = 0 /\ last_request_time = 0 /\ issued_at = 0 /\ granted_at = 0
    /\ ncalls = 0 /\ slept = 0
NoScrape ==
    /\ teams = << >> /\ team_idx = 0 /\ seasons = << >> /\ season_idx = 0
    /\ all_data = << >> /\ doc = NoPage /\ loads = 0 /\ since_load = 0
    /\ last_gap = -1 /\ gap_raised = FALSE /\ last_raised = FALSE
NoFrames == matches_df = << >> /\ standings_df = << >> /\ scorers_df = << >>

Init ==
    /\ pc = IF FirstSeason <= current_year THEN "matches" ELSE "done"
    /\ error = "none"
    /\ season_year = FirstSeason
    /\ matchday = 1
    /\ matches = << >> /\ standings = None /\ scorers = None
    /\ NoFrames
    /\ files = {} /\ requests = << >> /\ only403 = TRUE /\ paid = {}
    /\ NoRate /\ NoScrape

\* An exception nobody catches: the frames are unwound and the process ends
\* with a traceback. Neither get_season_data nor main has a try block.
Uncaught(exc) ==
    /\ pc' = "crashed"
    /\ error' = exc
    /\ matches' = << >> /\ standings' = None /\ scorers' = None
    /\ UNCHANGED <<season_year, matchday, files, paid>>

Is403(resp) == resp.transport = "ok" /\ resp.status_code = 403

\* One iteration of the matchday loop, lines 45-51.
FetchMatchday(resp) ==
    /\ pc = "matches"
    /\ requests' = Append(requests, <<"matches", season_year, matchday>>)
    /\ only403' = (only403 /\ Is403(resp))
    /\ LET r == make_request(resp)
       IN  IF r.exc # "none" THEN Uncaught(r.exc)
           ELSE /\ matches' = extend_matches(matches, r.value)
                /\ IF matchday < LastMatchday
                   THEN matchday' = matchday + 1 /\ pc' = "matches"
                   ELSE matchday' = matchday /\ pc' = "standings"
                /\ UNCHANGED <<error, season_year, standings, scorers, files, paid>>
    /\ UNCHANGED <<matches_df, standings_df, scorers_df>>
    /\ UNCHANGED rateVars /\ UNCHANGED scrapeVars

\* Lines 54-57.
FetchStandings(resp) ==
    /\ pc = "standings"
    /\ requests' = Append(requests, <<"standings", season_year, 0>>)
    /\ only403' = (only403 /\ Is403(resp))
    /\ LET r == make_request(resp)
       IN  IF r.exc # "none" THEN Uncaught(r.exc)
           ELSE /\ standings' = r.value
                /\ paid' = IF Is403(resp) THEN paid \cup {season_year} ELSE paid
                /\ pc' = "scorers"
                /\ UNCHANGED <<error, season_year, matchday, matches, scorers, files>>
    /\ UNCHANGED <<matches_df, standings_df, scorers_df>>
    /\ UNCHANGED rateVars /\ UNCHANGED scrapeVars

\* Lines 60-65: the scorers fetch and the return to main.
FetchScorers(resp) ==
    /\ pc = "scorers"
    /\ requests' = Append(requests, <<"scorers", season_year, 0>>)
    /\ only403' = (only403 /\ Is403(resp))
    /\ LET r == make_request(resp)
       IN  IF r.exc # "none" THEN Uncaught(r.exc)
           ELSE /\ scorers' = r.value
                /\ pc' = "process"
                /\ UNCHANGED <<error, season_year, matchday, matches, standings,
                               files, paid>>
    /\ UNCHANGED <<matches_df, standings_df, scorers_df>>
    /\ UNCHANGED rateVars /\ UNCHANGED scrapeVars

\* main, lines 137-147 and the loop's next iteration, line 134. The test of
\* line 137, matches is None, is never true: get_season_data returns the
\* list it built, which is empty when every matchday was refused.
\* The time.sleep(10) of line 147 changes nothing the walk reads.
ProcessAndSave ==
    /\ pc = "process"
    /\ LET p == process_data(matches, standings, scorers, season_year)
       IN  IF p.exc # "none"
           THEN Uncaught(p.exc)
           ELSE /\ files' = files \cup save_data(p.m, p.s, p.c, season_year)
                /\ IF season_year < current_year
                   THEN /\ season_year' = season_year + 1
                        /\ pc' = "matches"
                   ELSE /\ season_year' = season_year
                        /\ pc' = "done"
                /\ matchday' = 1
                /\ matches' = << >> /\ standings' = None /\ scorers' = None
                /\ UNCHANGED <<error, paid>>
    /\ requests' = IF pc' = "matches" THEN << >> ELSE requests
    /\ UNCHANGED <<matches_df, standings_df, scorers_df, only403>>
    /\ UNCHANGED rateVars /\ UNCHANGED scrapeVars

EndpointResponses(payloads) ==
    Failures \cup {Forbidden} \cup {Ok(p) : p \in payloads}

Next ==
    \/ \E resp \in Failures \cup {Forbidden}
                   \cup MatchPages(MaxMatches - Len(matches)) :
          FetchMatchday(resp)
    \/ \E resp \in EndpointResponses(StandingsPayloads) : FetchStandings(resp)
    \/ \E resp \in EndpointResponses(ScorersPayloads) : FetchScorers(resp)
    \/ ProcessAndSave

Spec == Init /\ [][Next]_vars

-----------------------------------------------------------------------------
(* FnSpec: process_data and save_data as functions of their arguments *)

\* The tables save_data can be handed: any rows, none included.
MatchFrames ==
    {[i \in 1..Len(ms) |->
         [home_score |-> ms[i].home, away_score |-> ms[i].away,
          status |-> ms[i].status, season |-> FirstSeason]] :
       ms \in SeqsUpTo(AllMatches, MaxRows)}
StandingsFrames == {<< >>, <<[team |-> "t1", season |-> FirstSeason]>>}
ScorersFrames == {<< >>, <<[player |-> "p1", season |-> FirstSeason]>>}

FnInit ==
    /\ error = "none"
    /\ season_year = FirstSeason
    /\ matchday = 1
    /\ files = {} /\ requests = << >> /\ only403 = TRUE /\ paid = {}
    /\ NoRate /\ NoScrape
    /\ \/ /\ pc = "raw"
          /\ matches \in SeqsUpTo(AllMatches, MaxRows)
          /\ standings \in {None, Json({}, << >>)} \cup StandingsPayloads
          /\ scorers \in {None, Json({}, << >>)} \cup ScorersPayloads
          /\ NoFrames
       \/ /\ pc = "direct"
          /\ matches = << >> /\ standings = None /\ scorers = None
          /\ matches_df \in MatchFrames
          /\ standings_df \in StandingsFrames
          /\ scorers_df \in ScorersFrames

\* process_data(matches, standings, scorers, season_year), lines 67-105.
ProcessData ==
    /\ pc = "raw"
    /\ LET p == process_data(matches, standings, scorers, season_year)
       IN  /\ pc' = IF p.exc # "none" THEN "raised" ELSE "processed"
           /\ error' = p.exc
           /\ matches_df' = p.m
           /\ standings_df' = p.s
           /\ scorers_df' = p.c
    /\ UNCHANGED <<season_year, matchday, matches, standings, scorers, files,
                   requests, only403, paid>>
    /\ UNCHANGED rateVars /\ UNCHANGED scrapeVars

\* save_data(matches_df, standings_df, scorers_df, season_year), lines 107-128.
SaveData ==
    /\ pc \in {"processed", "direct"}
    /\ files' = files \cup save_data(matches_df, standings_df, scorers_df, season_year)
    /\ pc' = "saved"
    /\ UNCHANGED <<error, season_year, matchday, matches, standings, scorers,
                   matches_df, standings_df, scorers_df, requests, only403, paid>>
    /\ UNCHANGED rateVars /\ UNCHANGED scrapeVars

FnNext == ProcessData \/ SaveData

FnSpec == FnInit /\ [][FnNext]_vars

-----------------------------------------------------------------------------
(* RateSpec: calls of LaLigaAPI.make_request on one instance, lines 21-35 *)

\* sleep_needed returning the time already elapsed instead of the remainder.
sleep_needed_elapsed(time_since_last) ==
    IF time_since_last < REQUEST_INTERVAL THEN time_since_last ELSE 0

\* Lines 24-25: the argument of time.sleep, 0 when the call does not sleep.
sleep_needed(time_since_last) ==
    IF time_since_last < REQUEST_INTERVAL
    THEN REQUEST_INTERVAL - time_since_last
    ELSE 0

\* The clock reads seconds since 1970: far more than REQUEST_INTERVAL when
\* the instance is built with last_request_time = 0 (line 19).
RateInit ==
    /\ pc = "rate"
    /\ error = "none"
    /\ season_year = FirstSeason
    /\ matchday = 1
    /\ matches = << >> /\ standings = None /\ scorers = None
    /\ NoFrames
    /\ files = {} /\ requests = << >> /\ only403 = TRUE /\ paid = {}
    /\ now \in REQUEST_INTERVAL..(REQUEST_INTERVAL + MaxOver)
    /\ last_request_time = 0 /\ issued_at = 0 /\ granted_at = 0
    /\ ncalls = 0 /\ slept = 0
    /\ NoScrape

\* One call of make_request, made idle ticks after the previous one
\* returned. time.sleep returns after at least its argument (over ticks
\* late); the exchange takes dur ticks. A transport that raises leaves
\* line 29 unexecuted.
MakeRequest(idle, over, dur, resp) ==
    LET t_call == now + idle
        time_since_last == t_call - last_request_time
        nap == sleep_needed(time_since_last)
        t_issue == t_call + nap + (IF nap > 0 THEN over ELSE 0)
        t_done == t_issue + dur
    IN  /\ pc = "rate"
        /\ ncalls < MaxCalls
        /\ t_done <= MaxTime
        /\ ncalls' = ncalls + 1
        /\ slept' = nap
        /\ granted_at' = last_request_time
        /\ issued_at' = t_issue
        /\ now' = t_done
        /\ last_request_time' =
              IF resp.transport = "error" THEN last_request_time ELSE t_done
        /\ error' = make_request(resp).exc
        /\ UNCHANGED <<pc, season_year, matchday, matches, standings, scorers,
                       matches_df, standings_df, scorers_df, files, requests,
                       only403, paid>>
        /\ UNCHANGED scrapeVars

\* The time between two calls: none to speak of, or about REQUEST_INTERVAL.
IdleTimes ==
    (0..MaxIdle) \cup ((REQUEST_INTERVAL - 1)..(REQUEST_INTERVAL + MaxIdle))

RateNext ==
    \E idle \in IdleTimes, over \in 0..MaxOver, dur \in 0..MaxDur,
       resp \in {Response("error", 0, FALSE, None), Forbidden,
                 Ok(Json({"matches"}, << >>))} :
        MakeRequest(idle, over, dur, resp)

RateSpec == RateInit /\ [][RateNext]_vars

-----------------------------------------------------------------------------
(* Webscraper.py. Line 56 of the file leaves the parenthesis of until( open, *)
(* so the file as it stands does not compile; the functions are modelled   *)
(* as they read with that parenthesis closed.                              *)

\* A row of the league page's stats table: with a team link or without.
NoLinkRow == [has_link |-> FALSE, name |-> "", url |-> ""]
LinkRow(name, url) == [has_link |-> TRUE, name |-> name, url |-> url]
TeamRows ==
    {NoLinkRow, LinkRow("Barcelona", "/squads/a"), LinkRow("Real Madrid", "/squads/b"),
     LinkRow("FC Barcelona", "/squads/a")}

\* The league page: the load raises, or the page has a stats table or none.
TeamsPage(load, has_table, rows) ==
    [kind |-> "league", load |-> load, has_table |-> has_table, rows |-> rows]
TeamsPages ==
    {TeamsPage("error", FALSE, << >>), TeamsPage("ok", FALSE, << >>)}
    \cup {TeamsPage("ok", TRUE, rows) : rows \in SeqsUpTo(TeamRows, MaxTeamRows)}

\* A team page: its h1 and its links to /squads/ pages.
SeasonsPage(load, has_h1, links) ==
    [kind |-> "team", load |-> load, has_h1 |-> has_h1, h1 |-> "2024-2025 Stats",
     links |-> links]
SeasonLink(text, href) == [text |-> text, href |-> href]
SeasonsPages ==
    {SeasonsPage("error", FALSE, << >>)}
    \cup {SeasonsPage("ok", h, l) :
            h \in BOOLEAN,
            l \in {<< >>,
                   <<SeasonLink("2023-2024", "/squads/a/2023-2024")>>,
                   <<SeasonLink("2023-2024", "/squads/a/2023-2024"),
                     SeasonLink("2023-2024", "/squads/a/2023-2024")>>}}

\* A section of a season page: its h2, whether the title holds "match log",
\* and whether it holds a table.
Section(has_h2, is_log, has_table) ==
    [has_h2 |-> has_h2, is_log |-> is_log, has_table |-> has_table]
LogsPage(load, sections) == [kind |-> "season", load |-> load, sections |-> sections]
LogsPages ==
    {LogsPage("error", << >>),
     LogsPage("ok", << >>),
     LogsPage("ok", <<Section(FALSE, FALSE, FALSE), Section(TRUE, FALSE, TRUE)>>),
     LogsPage("ok", <<Section(TRUE, TRUE, TRUE)>>),
     LogsPage("ok", <<Section(TRUE, TRUE, FALSE), Section(TRUE, TRUE, TRUE)>>)}

\* get_teams, lines 67-76: a row without a team link raises inside the
\* inner try and is skipped.
RECURSIVE team_rows(_)
team_rows(rows) ==
    IF rows = << >> THEN << >>
    ELSE LET r == Head(rows)
         IN  (IF r.has_link THEN <<[name |-> r.name, url |-> r.url]>> ELSE << >>)
             \o team_rows(Tail(rows))

\* get_teams, lines 51-79: the body of the outer try.
get_teams_try(page) ==
    IF page.load = "error" THEN Raise("WebDriverException")
    ELSE IF ~page.has_table THEN Raise("TimeoutException")
    ELSE Return(team_rows(page.rows))

\* get_teams without the handler of lines 81-83.
get_teams_uncaught(page) == get_teams_try(page)

\* get_teams, lines 45-83.
get_teams(page) ==
    LET r == get_teams_try(page)
    IN  IF r.exc # "none" THEN Return(<< >>) ELSE r

\* get_seasons, lines 94-101.
current_season(page, team_url) ==
    IF page.has_h1 THEN <<[name |-> page.h1, url |-> team_url]>> ELSE << >>

\* get_seasons, lines 104-114: the module never imports re, so re.match
\* raises NameError at the first link.
previous_seasons(links) ==
    IF links = << >> THEN Return(<< >>) ELSE Raise("NameError")

\* get_seasons, lines 85-121.
get_seasons(page, team_url) ==
    IF page.load = "error" THEN Return(<< >>)
    ELSE LET cur == current_season(page, team_url)
             prev == previous_seasons(page.links)
         IN  Return(IF prev.exc # "none" THEN cur ELSE cur \o prev.value)

\* get_match_logs, lines 135-153: one entry per match-log table parsed.
RECURSIVE log_tables(_)
log_tables(sections) ==
    IF sections = << >> THEN << >>
    ELSE LET x == Head(sections)
         IN  (IF x.has_h2 /\ x.is_log /\ x.has_table THEN <<"log">> ELSE << >>)
             \o log_tables(Tail(sections))

\* get_match_logs, lines 123-161: the table returned, empty on any failure.
get_match_logs(page) ==
    IF page.load = "error" THEN Return(<< >>)
    ELSE Return(log_tables(page.sections))

-----------------------------------------------------------------------------
(* ScrapeSpec: scrape_data, lines 163-225 *)

ScrapeInit ==
    /\ pc = "get_teams"
    /\ error = "none"
    /\ season_year = FirstSeason
    /\ matchday = 1
    /\ matches = << >> /\ standings = None /\ scorers = None
    /\ NoFrames
    /\ files = {} /\ requests = << >> /\ only403 = TRUE /\ paid = {}
    /\ NoRate /\ NoScrape

\* The seconds that pass after a driver.get before the function returns: the
\* time.sleep of lines 52, 89, 127 when the load succeeded, the time the
\* load took to raise when it did not. What the function does after its
\* sleep takes time too and only lengthens the gap.
Delays(page, lo, hi) ==
    IF page.load = "error" THEN 0..MaxFailTime
    ELSE {REQUEST_DELAY + j : j \in lo..hi}

\* driver.get(url): the gap to the previous load is taken at its issue.
Load(page, delay) ==
    /\ loads' = loads + 1
    /\ doc' = page
    /\ last_gap' = IF loads = 0 THEN -1 ELSE since_load
    /\ gap_raised' = last_raised
    /\ last_raised' = (page.load = "error")
    /\ since_load' = delay

\* Lines 213-225: the final save and driver.quit().
FinalFiles(data) ==
    IF data # << >> THEN {<<"la_liga_final_data", 0>>} ELSE {}

\* Lines 181-188: the next team, or the end of the run.
NextTeam(data) ==
    IF team_idx < Len(teams)
    THEN /\ team_idx' = team_idx + 1
         /\ pc' = "get_seasons"
         /\ files' = files \cup (IF data # << >> THEN {<<"la_liga_data", 0>>} ELSE {})
    ELSE /\ team_idx' = team_idx
         /\ pc' = "quit"
         /\ files' = files \cup (IF data # << >> THEN {<<"la_liga_data", 0>>} ELSE {})
                           \cup FinalFiles(data)

\* Lines 173-178.
GetTeams(page, delay) ==
    /\ pc = "get_teams"
    /\ Load(page, delay)
    /\ LET r == get_teams(page)
       IN  IF r.exc # "none"
           THEN /\ pc' = "raised" /\ error' = r.exc
                /\ UNCHANGED <<teams, team_idx>>
           ELSE /\ teams' = r.value
                /\ error' = error
                /\ IF r.value = << >>
                   THEN pc' = "quit" /\ team_idx' = team_idx
                   ELSE pc' = "get_seasons" /\ team_idx' = 1
    /\ UNCHANGED <<seasons, season_idx, all_data, files>>
    /\ UNCHANGED <<season_year, matchday, matches, standings, scorers,
                   matches_df, standings_df, scorers_df, requests, only403, paid>>
    /\ UNCHANGED rateVars

\* Lines 186-188.
GetSeasons(page, delay) ==
    /\ pc = "get_seasons"
    /\ Load(page, delay)
    /\ LET r == get_seasons(page, teams[team_idx].url)
       IN  /\ seasons' = r.value
           /\ IF r.value = << >>
              THEN NextTeam(all_data) /\ season_idx' = season_idx
              ELSE /\ pc' = "get_match_logs" /\ season_idx' = 1
                   /\ UNCHANGED <<team_idx, files>>
    /\ UNCHANGED <<teams, all_data, error>>
    /\ UNCHANGED <<season_year, matchday, matches, standings, scorers,
                   matches_df, standings_df, scorers_df, requests, only403, paid>>
    /\ UNCHANGED rateVars

\* Lines 191-211: one season of one team.
GetMatchLogs(page, delay) ==
    /\ pc = "get_match_logs"
    /\ Load(page, delay)
    /\ LET logs == get_match_logs(page).value
           data == IF logs # << >>
                   THEN Append(all_data,
                               [team |-> teams[team_idx].name,
                                season |-> seasons[season_idx].name,
                                url |-> seasons[season_idx].url])
                   ELSE all_data
       IN  /\ all_data' = data
           /\ IF season_idx < Len(seasons)
              THEN /\ season_idx' = season_idx + 1
                   /\ pc' = "get_match_logs"
                   /\ team_idx' = team_idx
                   /\ files' = files \cup (IF data # << >>
                                           THEN {<<"la_liga_data", 0>>} ELSE {})
              ELSE NextTeam(data) /\ season_idx' = season_idx
    /\ UNCHANGED <<teams, seasons, error>>
    /\ UNCHANGED <<season_year, matchday, matches, standings, scorers,
                   matches_df, standings_df, scorers_df, requests, only403, paid>>
    /\ UNCHANGED rateVars

ScrapeNext ==
    \/ \E page \in TeamsPages : \E delay \in Delays(page, 1, 3) : GetTeams(page, delay)
    \/ \E page \in SeasonsPages : \E delay \in Delays(page, 1, 2) : GetSeasons(page, delay)
    \/ \E page \in LogsPages : \E delay \in Delays(page, 1, 3) : GetMatchLogs(page, delay)

ScrapeSpec == ScrapeInit /\ [][ScrapeNext]_vars

-----------------------------------------------------------------------------
(* Claims on the API collector *)

FetchErrors == {"ConnectionError", "HTTPError", "JSONDecodeError"}

\* C2: a failed fetch (a status such as 429 or 500, a malformed body, an
\* exception of the transport) fails only its unit of work: it never ends
\* the run, and the walk goes on with the next season.
C2_FailedFetchNeverAborts == ~(pc = "crashed" /\ error \in FetchErrors)

\* C3: a season whose standings fetch was answered 403 while its matches and
\* scorers came back non-empty has its matches and scorers persisted, no
\* standings file written, and the walk goes on with the next season.
C3_Case ==
    /\ pc = "process"
    /\ season_year \in paid /\ standings.isNone
    /\ matches # << >>
    /\ Truthy(scorers) /\ "scorers" \in scorers.keys /\ scorers.items # << >>
C3_PartialSeasonPersisted ==
    [][C3_Case =>
         /\ <<"matches", season_year>> \in files'
         /\ <<"scorers", season_year>> \in files'
         /\ <<"standings", season_year>> \notin files'
         /\ error' = "none"
         /\ IF season_year < current_year
            THEN pc' = "matches" /\ season_year' = season_year + 1 /\ matchday' = 1
            ELSE pc' = "done"]_vars
\* Season 2 of 3 was refused its standings, is persisted without them, and
\* season 3 has been fetched and persisted.
C3_Witness ==
    /\ FirstSeason + 1 \in paid
    /\ <<"matches", FirstSeason + 1>> \in files
    /\ <<"scorers", FirstSeason + 1>> \in files
    /\ <<"standings", FirstSeason + 1>> \notin files
    /\ <<"matches", FirstSeason + 2>> \in files

\* C4: a run in which every request of every season is answered 403 runs
\* main to its end and exits normally; it does not end in an uncaught error.
C4_NoAccessExitsNormally == only403 => pc # "crashed"

\* The requests get_season_data issues, in order: the 38 matchdays, then
\* the standings, then the scorers.
ExpectedRequests(year, n) ==
    [i \in 1..n |->
        IF i <= LastMatchday THEN <<"matches", year, i>>
        ELSE IF i = LastMatchday + 1 THEN <<"standings", year, 0>>
        ELSE <<"scorers", year, 0>>]

\* C6: for every season, one matches fetch per matchday 1..38, in increasing
\* order, the results concatenated; a page that is empty, lacks "matches" or
\* is refused (403) does not stop the loop, and the 38 fetches come before
\* the standings and scorers fetches.
C6_Order ==
    /\ Len(requests) <= LastMatchday + 2
    /\ requests = ExpectedRequests(season_year, Len(requests))
    /\ pc = "matches" => Len(requests) = matchday - 1
    /\ pc = "standings" => Len(requests) = LastMatchday
    /\ pc = "scorers" => Len(requests) = LastMatchday + 1
    /\ pc = "process" => Len(requests) = LastMatchday + 2
C6_Step ==
    (pc = "matches" /\ pc' # "crashed") =>
        /\ IsPrefix(matches, matches')
        /\ Len(requests') = Len(requests) + 1
        /\ IF matchday < LastMatchday
           THEN pc' = "matches" /\ matchday' = matchday + 1
           ELSE pc' = "standings"
C6_OneFetchPerMatchday == [](pc \in {"matches", "standings", "scorers", "process", "crashed"} => C6_Order) /\ [][C6_Step]_vars
\* A season fetched to its end: all 40 requests issued, two pages of matches
\* concatenated among pages that carried none.
C6_Witness ==
    /\ pc = "process"
    /\ Len(requests) = LastMatchday + 2
    /\ Len(matches) >= 2
    /\ matches[1] # matches[2]

\* The result the data model derives from two integer scores.
DerivedResult(h, a) == IF h > a THEN "H" ELSE IF h < a THEN "A" ELSE "D"

\* C5: save_data writes a file for an entity type only when its table is
\* non-empty: an empty matches, standings or scorers table produces no file.
C5_NoFileForEmptyTable ==
    pc = "saved" =>
        /\ <<"matches", season_year>> \in files => matches_df # << >>
        /\ <<"standings", season_year>> \in files => standings_df # << >>
        /\ <<"scorers", season_year>> \in files => scorers_df # << >>

\* C7: every match record process_data produces carries a derived result,
\* H, A or D, when both scores are integers, and no result when the scores
\* are absent.
C7_ResultDerived ==
    pc = "processed" =>
        \A i \in 1..Len(matches_df) :
            LET r == matches_df[i]
            IN  IF r.home_score # << >> /\ r.away_score # << >>
                THEN /\ "result" \in DOMAIN r
                     /\ r.result = DerivedResult(r.home_score[1], r.away_score[1])
                ELSE "result" \notin DOMAIN r

-----------------------------------------------------------------------------
(* Claims on the rate limiter *)

\* C1: on one instance, between the moment a call recorded
\* last_request_time and the moment the next GET is issued, at least
\* REQUEST_INTERVAL elapses.
C1_MinimumInterval ==
    ncalls >= 1 => issued_at - granted_at >= REQUEST_INTERVAL
\* A call that found a slot granted less than REQUEST_INTERVAL ago, slept,
\* and issued its GET exactly REQUEST_INTERVAL after that slot.
C1_Witness ==
    /\ ncalls >= 2
    /\ granted_at > 0
    /\ slept > 0
    /\ issued_at - granted_at = REQUEST_INTERVAL

-----------------------------------------------------------------------------
(* Claims on the browser scraper *)

HasLink(row) == row.has_link
LinkedTeams(rows) ==
    LET linked == SelectSeq(rows, HasLink)
    IN  [i \in 1..Len(linked) |-> [name |-> linked[i].name, url |-> linked[i].url]]

NoDuplicateUrl(list) ==
    \A i, j \in 1..Len(list) : list[i].url = list[j].url => i = j

\* C9: the season list of get_seasons and the team list of get_teams hold no
\* two entries with the same url, whatever their names, so that scrape_data
\* never loads and accumulates the same season page twice.
C9_DeduplicatedByUrl ==
    /\ NoDuplicateUrl(teams)
    /\ NoDuplicateUrl(seasons)
    /\ NoDuplicateUrl(all_data)

\* C10: any two consecutive driver.get calls of a scrape_data run are at
\* least REQUEST_DELAY seconds apart, also when the earlier one raised.
C10_MinimumDelay == loads >= 2 => last_gap >= REQUEST_DELAY

====
